---- MODULE Spec2Model ----
(***************************************************************************)
(* Model of neurogym/wrappers/shaping.py: the Shaping trial wrapper.       *)
(*                                                                         *)
(* `self` is the wrapper object, `env` the wrapped environment, both as    *)
(* records whose fields carry the names of the Python attributes.  `ret`   *)
(* is what the last step() call returned, `g` is history kept for the      *)
(* properties only (it never influences self, env or ret).                 *)
(*                                                                         *)
(* An ordered dict of periods (env.timing) is a sequence of records        *)
(* [name, dist, args]; args is always a sequence, the scalar argument of   *)
(* a 'constant' period being the one-element sequence.  Thresholds and     *)
(* means are exact fractions <<numerator, denominator>>.                   *)
(***************************************************************************)
EXTENDS Integers, Sequences, FiniteSets, TLC

VARIABLES self, env, ret, g

vars == <<self, env, ret, g>>

(***************************************************************************)
(* Bounds of the model.                                                    *)
(***************************************************************************)
MaxTrials == 3      \* new_trial() calls explored (env.num_tr)
MaxPerfW  == 2      \* perf_w is drawn from 1..MaxPerfW
MaxReps   == 2      \* max_num_reps is drawn from 1..MaxReps
TMaxSteps == 2      \* env.tmax = TMaxSteps * env.dt

(***************************************************************************)
(* Inputs.                                                                 *)
(***************************************************************************)
Actions   == {0, 1, 2}            \* 0 is the neutral (fixate) action
Rewards   == {-1, 1}              \* what the wrapped env's step may pay
Perfs     == {0, 1}
InitPhases == 0 .. 4
NoPerf    == -1                   \* info carries no 'performance' key

ShortDurArg == 2                  \* short_dur=2
ThNum == 4                        \* th=0.8 = ThNum / ThDen
ThDen == 5
EnvDt == 100
EnvSigmaDt == 3
EnvRTmax == -1
EnvRCorrect == 1
TmaxRest == 50                    \* env.tmax is not a multiple of env.dt

TimingA ==
  << [name |-> "fixation", dist |-> "constant", args |-> <<300>>],
     [name |-> "stimulus", dist |-> "uniform",  args |-> <<300, 400>>],
     [name |-> "decision", dist |-> "constant", args |-> <<500>>] >>

TimingB ==
  << [name |-> "fixation", dist |-> "truncated_exponential",
                           args |-> <<600, 400, 800>>],
     [name |-> "delay",    dist |-> "constant", args |-> <<1000>>],
     [name |-> "decision", dist |-> "uniform",  args |-> <<100, 300>>] >>

Timings == {TimingA, TimingB}

(***************************************************************************)
(* Python helpers.                                                         *)
(***************************************************************************)
Max(a, b) == IF a >= b THEN a ELSE b

RECURSIVE Sum(_)
Sum(s) == IF s = <<>> THEN 0 ELSE Head(s) + Sum(Tail(s))

\* np.mean(window) as an exact fraction
Mean(window) == <<Sum(window), Len(window)>>

\* mean >= threshold; np.mean([]) is nan and compares False
MeanGE(m, th) == m[2] > 0 /\ m[1] * th[2] >= th[1] * m[2]

\* d[key] = val on an ordered dict: replace in place, or append a new key
DictSet(d, key, val) ==
  IF \E i \in DOMAIN d : d[i].name = key
  THEN [i \in DOMAIN d |->
          IF d[i].name = key
          THEN [name |-> key, dist |-> val.dist, args |-> val.args]
          ELSE d[i]]
  ELSE Append(d, [name |-> key, dist |-> val.dist, args |-> val.args])

DictGet(d, key) == LET i == CHOOSE j \in DOMAIN d : d[j].name = key
                   IN  [dist |-> d[i].dist, args |-> d[i].args]

Keys(d) == [i \in DOMAIN d |-> d[i].name]

\* list(keys), without the [:-1]
AllKeys(s) == s

\* list(keys)[:-1]
AllButLast(s) == IF s = <<>> THEN <<>> ELSE SubSeq(s, 1, Len(s) - 1)

Range(s) == {s[i] : i \in DOMAIN s}

(***************************************************************************)
(* Shaping.count                                                           *)
(***************************************************************************)
count(slf, action) ==
  IF action # 0
  THEN IF action = slf.prev_act
       THEN [slf EXCEPT !.counter = @ + 1]
       ELSE [slf EXCEPT !.counter = 1, !.prev_act = action]
  ELSE slf

(***************************************************************************)
(* Shaping.set_phase.  In the result, `appended` tells whether the trial's *)
(* performance was put into the window, `checked` whether the mean was     *)
(* computed and compared, `cleared` whether the window was emptied, and    *)
(* `eval_len` is the length of the window the mean was taken of.           *)
(***************************************************************************)
\* the test with > for >=
window_full_strict(slf) == Len(slf.mov_window) > slf.perf_window

\* len(self.mov_window) >= self.perf_window
window_full(slf) == Len(slf.mov_window) >= slf.perf_window

\* the append without the pop
push_nopop(window, performance) == Append(window, performance)

\* pop() for pop(0): the value just appended is the one removed
push_poplast(window, performance) == window

\* mov_window.append(performance); mov_window.pop(0)
push_pop(window, performance) == Tail(Append(window, performance))

\* curr_ph =+ 1 for curr_ph += 1
advance_typo(slf) == [slf EXCEPT !.curr_ph = 1, !.mov_window = <<>>]

\* an increment of two
advance_skip(slf) == [slf EXCEPT !.curr_ph = @ + 2, !.mov_window = <<>>]

\* self.curr_ph += 1; self.mov_window = []
advance(slf) == [slf EXCEPT !.curr_ph = @ + 1, !.mov_window = <<>>]

\* what performance is once new_trial has reset it
outcome_after_reset(slf) == 0

\* the outcome set_phase records: self.performance as it is when new_trial
\* calls set_phase, before the reset
outcome(slf) == slf.performance

set_phase(slf) ==
  IF slf.curr_ph < 5
  THEN IF window_full(slf)
       THEN LET s1 == [slf EXCEPT
                         !.mov_window = push_pop(@, outcome(slf))]
                s2 == [s1 EXCEPT !.curr_perf = Mean(s1.mov_window)]
                up == MeanGE(s2.curr_perf, s2.goal_perf[s2.curr_ph + 1])
            IN  [self |-> IF up THEN advance(s2) ELSE s2,
                 appended |-> TRUE, checked |-> TRUE, cleared |-> up,
                 eval_len |-> Len(s2.mov_window)]
       ELSE [self |-> [slf EXCEPT
                         !.mov_window = Append(@, outcome(slf))],
             appended |-> TRUE, checked |-> FALSE, cleared |-> FALSE,
             eval_len |-> 0]
  ELSE [self |-> slf, appended |-> FALSE, checked |-> FALSE,
        cleared |-> FALSE, eval_len |-> 0]

(***************************************************************************)
(* The wrapped environment's own methods.  Their code is not part of the   *)
(* wrapper; build_timing_fns installs each given period descriptor into    *)
(* the environment's active timing, new_trial leaves the fields the        *)
(* wrapper uses alone.                                                     *)
(***************************************************************************)
RECURSIVE build_timing_loop(_, _, _)
build_timing_loop(timing, kwargs, i) ==
  IF i > Len(kwargs) THEN timing
  ELSE build_timing_loop(
         DictSet(timing, kwargs[i].name,
                 [dist |-> kwargs[i].dist, args |-> kwargs[i].args]),
         kwargs, i + 1)

build_timing_fns(e, kwargs) ==
  [e EXCEPT !.timing = build_timing_loop(@, kwargs, 1)]

env_new_trial(e) == e

\* self.ori_periods = self.env.timing, without the copy
SnapshotAliased == FALSE

(***************************************************************************)
(* self.ori_periods = self.env.timing.copy(): the snapshot is a dict of    *)
(* its own, so what is later installed into env.timing does not reach it.  *)
(***************************************************************************)
SnapshotIsCopy == TRUE

AfterInstall(slf, e) ==
  IF SnapshotIsCopy THEN slf ELSE [slf EXCEPT !.ori_periods = e.timing]

(***************************************************************************)
(* Shaping.new_trial, the three timing regimes.                            *)
(***************************************************************************)
\* round() for int(): the nearest multiple, halves up
Quantize_round(n, short_dur, first, dt) ==
  ((2 * n * short_dur + first * dt) \div (2 * first * dt)) * dt

\* int(n*factor/dt)*dt with factor = short_dur/args[0]; the operands are
\* non-negative, where int() is the floor
Quantize(n, short_dur, first, dt) == ((n * short_dur) \div (first * dt)) * dt

ConstantShort(short_dur) == [dist |-> "constant", args |-> <<short_dur>>]

Scaled(val, short_dur, dt) ==
  [dist |-> val.dist,
   args |-> [k \in DOMAIN val.args |->
               Quantize(val.args[k], short_dur, val.args[1], dt)]]

RECURSIVE short_loop(_, _, _, _)
short_loop(timing, slf, e, i) ==
  IF i > Len(slf.ori_periods) THEN timing
  ELSE LET key == slf.ori_periods[i].name
       IN  short_loop(
             IF key \in Range(slf.change_periods)
             THEN DictSet(timing, key, ConstantShort(slf.short_dur))
             ELSE timing,
             slf, e, i + 1)

RECURSIVE variable_loop(_, _, _, _)
variable_loop(timing, slf, e, i) ==
  IF i > Len(slf.ori_periods) THEN timing
  ELSE LET key == slf.ori_periods[i].name
           val == DictGet(slf.ori_periods, key)
       IN  variable_loop(
             IF key \in Range(slf.change_periods)
             THEN IF val.dist # "constant"
                  THEN DictSet(timing, key, Scaled(val, slf.short_dur, e.dt))
                  ELSE DictSet(timing, key, ConstantShort(slf.short_dur))
             ELSE timing,
             slf, e, i + 1)

\* the copy taken of the snapshot instead of the active timing
new_trial_short_ori(slf, e) ==
  LET e1     == [e EXCEPT !.sigma_dt = 0]
      timing == IF ~slf.short THEN short_loop(slf.ori_periods, slf, e1, 1)
                ELSE slf.ori_periods
      s1     == IF ~slf.short
                THEN [slf EXCEPT !.short = TRUE, !.variable = FALSE]
                ELSE slf
      e2     == build_timing_fns(e1, timing)
  IN  [self |-> AfterInstall(s1, e2), env |-> e2, installed |-> timing]

\* curr_ph < 2
new_trial_short(slf, e) ==
  LET e1     == [e EXCEPT !.sigma_dt = 0]
      timing == IF ~slf.short THEN short_loop(e1.timing, slf, e1, 1)
                ELSE e1.timing
      s1     == IF ~slf.short
                THEN [slf EXCEPT !.short = TRUE, !.variable = FALSE]
                ELSE slf
      e2     == build_timing_fns(e1, timing)
  IN  [self |-> AfterInstall(s1, e2), env |-> e2, installed |-> timing]

\* 2 <= curr_ph < 4
new_trial_variable(slf, e) ==
  LET redo   == ~slf.short \/ ~slf.variable
      timing == IF redo THEN variable_loop(e.timing, slf, e, 1)
                ELSE e.timing
      s1     == IF redo
                THEN [slf EXCEPT !.short = TRUE, !.variable = TRUE]
                ELSE slf
      e1     == build_timing_fns(e, timing)
      s2     == AfterInstall(s1, e1)
      e2     == IF s2.curr_ph = 2 THEN [e1 EXCEPT !.sigma_dt = 0]
                ELSE IF s2.curr_ph = 3
                     THEN [e1 EXCEPT !.sigma_dt = s2.sigma_dt_ori]
                     ELSE e1
  IN  [self |-> s2, env |-> e2, installed |-> timing]

\* the active timing installed again instead of the snapshot
new_trial_full_active(slf, e) ==
  LET e1     == [e EXCEPT !.sigma_dt = slf.sigma_dt_ori]
      timing == e1.timing
      e2     == build_timing_fns(e1, timing)
  IN  [self |-> AfterInstall(slf, e2), env |-> e2, installed |-> timing]

\* curr_ph >= 4
new_trial_full(slf, e) ==
  LET e1     == [e EXCEPT !.sigma_dt = slf.sigma_dt_ori]
      timing == slf.ori_periods
      e2     == build_timing_fns(e1, timing)
  IN  [self |-> AfterInstall(slf, e2), env |-> e2, installed |-> timing]

(***************************************************************************)
(* Shaping.new_trial on the world w = [self, env, g].                      *)
(***************************************************************************)
\* without performance = 0
reset_trial_keep(slf) ==
  [slf EXCEPT !.first_choice = TRUE,
              !.change_periods = AllButLast(Keys(slf.ori_periods))]

\* first_choice = True; performance = 0; change_periods = keys[:-1]
reset_trial(slf) ==
  [slf EXCEPT !.first_choice = TRUE,
              !.performance = 0,
              !.change_periods = AllButLast(Keys(slf.ori_periods))]

new_trial(w) ==
  LET sp == set_phase(w.self)
      s1 == reset_trial(sp.self)
      e1 == [w.env EXCEPT !.performance = 0, !.t = 0, !.t_ind = 0,
                          !.num_tr = @ + 1]
      r  == IF s1.curr_ph < 2 THEN new_trial_short(s1, e1)
            ELSE IF 2 <= s1.curr_ph /\ s1.curr_ph < 4
                 THEN new_trial_variable(s1, e1)
                 ELSE new_trial_full(s1, e1)
  IN  [self |-> r.self,
       env  |-> env_new_trial(r.env),
       g    |-> [w.g EXCEPT
                   !.nt = TRUE,
                   !.steps = 0,
                   !.ended_steps = w.g.steps,
                   !.first_perf = NoPerf,
                   !.ended_first = w.g.first_perf,
                   !.installed = r.installed,
                   !.checked = sp.checked,
                   !.cleared = sp.cleared,
                   !.eval_len = sp.eval_len,
                   !.rec_perf = IF sp.appended THEN w.self.performance
                                ELSE NoPerf,
                   !.seen = IF sp.appended
                            THEN Append(w.g.recorded, w.self.performance)
                            ELSE w.g.recorded,
                   !.recorded = IF sp.cleared THEN <<>>
                                ELSE IF sp.appended
                                     THEN Append(@, w.self.performance)
                                     ELSE @]]

(***************************************************************************)
(* The wrapped environment's _step and step.  What they return is the      *)
(* environment's choice e = [reward, new_trial, performance]; _step leaves *)
(* the trial's performance in env.performance, step reports it in info.    *)
(***************************************************************************)
EnvOut == {e \in [reward : Rewards, new_trial : BOOLEAN, performance : Perfs] :
             ~e.new_trial => e.performance = 0}

env__step(e0, action, e) == [e0 EXCEPT !.performance = e.performance]

env_step(e0, action, e) == e0

\* history of one call, cleared at its start
StartCall(h, op, slf, action, e) ==
  [h EXCEPT !.op = op, !.action = action, !.ph = slf.curr_ph,
            !.base = e, !.nt = FALSE, !.checked = FALSE, !.cleared = FALSE,
            !.eval_len = 0, !.rec_perf = NoPerf, !.seen = h.recorded,
            !.timeout = FALSE, !.t_step = 0, !.ended_steps = 0,
            !.ended_first = NoPerf,
            !.suppressed = FALSE, !.perf_before = slf.performance]

NoAct == -1
NoRet  == [reward |-> 0, new_trial |-> FALSE, performance |-> NoPerf]
NoBase == [reward |-> 0, new_trial |-> FALSE, performance |-> 0]

\* History of the trial-ending steps of phase 0, for an action that ended a
\* trial on its own signal.  run: how many such steps in a row were taken
\* with the same action, whichever it is.  streak: the same, but a neutral
\* action neither counts nor interrupts.
Streak(h, action) ==
  [h EXCEPT
     !.run        = IF action = h.run_act THEN @ + 1 ELSE 1,
     !.run_act    = action,
     !.streak     = IF action = 0 THEN @
                    ELSE IF action = h.streak_act THEN @ + 1 ELSE 1,
     !.streak_act = IF action = 0 THEN @ ELSE action]

(***************************************************************************)
(* Shaping.step, curr_ph < 2: the wrapper steps the environment itself.    *)
(***************************************************************************)
\* the streak test with >= for >
boundary_ph0_ge(slf, e0, action, reward) ==
  LET c == count(slf, action)
  IN  IF c.counter >= c.max_num_reps
      THEN [self |-> [c EXCEPT !.performance = 0],
            reward |-> 0, new_trial |-> TRUE]
      ELSE [self |-> [c EXCEPT !.performance = 1],
            reward |-> e0.rewards.correct, new_trial |-> TRUE]

\* the phase 0 branch at a boundary the environment signals
boundary_ph0(slf, e0, action, reward) ==
  LET c == count(slf, action)
  IN  IF c.counter > c.max_num_reps
      THEN [self |-> [c EXCEPT !.performance = 0],
            reward |-> 0, new_trial |-> TRUE]
      ELSE [self |-> [c EXCEPT !.performance = 1],
            reward |-> e0.rewards.correct, new_trial |-> TRUE]

\* a right choice paid rewards['correct'] as in phase 0
boundary_ph1_correct(slf, e0, action, reward) ==
  LET wrong == e0.performance = 0
  IN  [self |-> IF slf.first_choice
                THEN [slf EXCEPT !.performance = e0.performance,
                                 !.first_choice = FALSE]
                ELSE slf,
       reward |-> IF wrong THEN 0 ELSE e0.rewards.correct,
       new_trial |-> ~wrong]

\* without reward = 0 for a wrong choice
boundary_ph1_paid(slf, e0, action, reward) ==
  LET wrong == e0.performance = 0
  IN  [self |-> IF slf.first_choice
                THEN [slf EXCEPT !.performance = e0.performance,
                                 !.first_choice = FALSE]
                ELSE slf,
       reward |-> reward,
       new_trial |-> ~wrong]

\* without the first_choice test: every choice is recorded
boundary_ph1_overwrite(slf, e0, action, reward) ==
  LET wrong == e0.performance = 0
  IN  [self |-> [slf EXCEPT !.performance = e0.performance,
                            !.first_choice = FALSE],
       reward |-> IF wrong THEN 0 ELSE reward,
       new_trial |-> ~wrong]

\* the phase 1 branch at a boundary the environment signals
boundary_ph1(slf, e0, action, reward) ==
  LET wrong == e0.performance = 0
  IN  [self |-> IF slf.first_choice
                THEN [slf EXCEPT !.performance = e0.performance,
                                 !.first_choice = FALSE]
                ELSE slf,
       reward |-> IF wrong THEN 0 ELSE reward,
       new_trial |-> ~wrong]

\* the test against tmax instead of tmax - dt
timed_out_late(e1, info_new_trial) ==
  e1.t > e1.tmax /\ ~info_new_trial

\* self.env.t > self.env.tmax - self.env.dt and not info['new_trial']
timed_out(e1, info_new_trial) ==
  e1.t > e1.tmax - e1.dt /\ ~info_new_trial

\* without the timeout term
timeout_reward_none(reward, e1) == reward

\* reward += self.r_tmax
timeout_reward(reward, e1) == reward + e1.r_tmax

step_shaped(w, action, e) ==
  LET e1 == [env__step(w.env, action, e) EXCEPT !.t = @ + w.env.dt,
                                                !.t_ind = @ + 1]
      reward == Max(e.reward, 0)
      b  == IF e.new_trial
            THEN IF w.self.curr_ph = 0
                 THEN boundary_ph0(w.self, e1, action, reward)
                 ELSE IF w.self.curr_ph = 1
                      THEN boundary_ph1(w.self, e1, action, reward)
                      ELSE [self |-> w.self, reward |-> reward,
                            new_trial |-> TRUE]
            ELSE [self |-> w.self, reward |-> reward, new_trial |-> FALSE]
      timeout == timed_out(e1, b.new_trial)
      reward2 == IF timeout THEN timeout_reward(b.reward, e1) ELSE b.reward
      nt == b.new_trial \/ timeout
      h0 == StartCall(w.g, "step", w.self, action, e)
      h1 == [h0 EXCEPT !.timeout = timeout,
                       !.suppressed = e.new_trial /\ ~b.new_trial,
                       !.t_step = e1.t,
                       !.steps = @ + 1,
                       !.first_perf =
                          IF w.self.curr_ph = 1 /\ e.new_trial /\ @ = NoPerf
                          THEN e.performance ELSE @]
      h2 == IF w.self.curr_ph = 0 /\ e.new_trial
            THEN Streak(h1, action) ELSE h1
      w1 == [self |-> b.self, env |-> e1, g |-> h2]
      w2 == IF nt THEN new_trial(w1) ELSE w1
  IN  [self |-> w2.self, env |-> w2.env, g |-> w2.g,
       ret |-> [reward |-> reward2, new_trial |-> nt,
                performance |-> IF nt THEN b.self.performance ELSE NoPerf]]

(***************************************************************************)
(* Shaping.step, curr_ph >= 2: the environment's own step is used.         *)
(***************************************************************************)
\* 2 < self.curr_ph < 5
floors_reward_from3(slf) == 2 < slf.curr_ph /\ slf.curr_ph < 5

\* without the upper end
floors_reward_open(slf) == 2 <= slf.curr_ph

\* 2 <= self.curr_ph < 5
floors_reward(slf) == 2 <= slf.curr_ph /\ slf.curr_ph < 5

step_delegated(w, action, e) ==
  LET e1 == env_step(w.env, action, e)
      reward == IF floors_reward(w.self)
                THEN Max(e.reward, 0) ELSE e.reward
      info_perf == IF e.new_trial THEN e.performance ELSE NoPerf
      s1 == IF e.new_trial THEN [w.self EXCEPT !.performance = info_perf]
            ELSE w.self
      w1 == [self |-> s1, env |-> e1,
             g |-> StartCall(w.g, "step", w.self, action, e)]
      w2 == IF e.new_trial THEN new_trial(w1) ELSE w1
  IN  [self |-> w2.self, env |-> w2.env, g |-> w2.g,
       ret |-> [reward |-> reward, new_trial |-> e.new_trial,
                performance |-> info_perf]]

(***************************************************************************)
(* A wrapped environment that lacks one attribute.  g.absent is the set of *)
(* attributes env does not have; a read of one of them raises              *)
(* AttributeError (KeyError for rewards['correct']), an assignment creates *)
(* it.  g.raised names the attribute whose read raised; the controller is  *)
(* not used after that.                                                    *)
(***************************************************************************)
ContractFields ==
  {"dt", "tmax", "t", "t_ind", "num_tr", "timing", "sigma_dt", "rewards",
   "performance", "step", "new_trial"}

\* what __init__ reads of env: env.dt, env.timing, env.sigma_dt
ReadByInit == {"dt", "timing", "sigma_dt"}

\* self.env.performance = 0; self.env.t = self.env.t_ind = 0
CreatedByNewTrial == {"performance", "t", "t_ind"}

\* the first of reads that is of an absent attribute, "" if none is
FirstAbsent(reads, absent) ==
  LET hit == {i \in DOMAIN reads : reads[i] \in absent}
  IN  IF hit = {} THEN ""
      ELSE reads[CHOOSE i \in hit : \A j \in hit : i <= j]

\* new_trial reads env.num_tr (+= 1), env.timing, and calls env.new_trial()
reads_new_trial == <<"num_tr", "timing", "new_trial">>

\* what step reads of env, in the order of the code, on the path that
\* action and the environment's answer e select; ends tells whether the
\* step gets as far as calling self.new_trial()
reads_step(slf, action, e, ends) ==
  IF slf.curr_ph < 2
  THEN <<"t", "dt", "t_ind">>
       \o (IF e.new_trial /\ slf.curr_ph = 0
              /\ ~(count(slf, action).counter > slf.max_num_reps)
           THEN <<"rewards">> ELSE <<>>)
       \o (IF e.new_trial /\ slf.curr_ph = 1
           THEN <<"performance">> ELSE <<>>)
       \o <<"tmax">>
       \o (IF ends THEN reads_new_trial ELSE <<>>)
  ELSE <<"step">> \o (IF e.new_trial THEN reads_new_trial ELSE <<>>)

\* What a call gives over an env that lacks absent: it raises at the first
\* read of an absent attribute (raised; the controller is then as it was at
\* the call, what the interrupted call left behind is not followed), and
\* else gives r.
called(w, op, r, reads, creates) ==
  LET raised == FirstAbsent(reads, w.g.absent)
  IN  IF raised = ""
      THEN [r EXCEPT !.g.absent = @ \ creates]
      ELSE [self |-> w.self, env |-> w.env, ret |-> NoRet,
            g |-> [w.g EXCEPT !.raised = raised, !.op = op]]

returned(w, r, action, e) ==
  called(w, "step", r, reads_step(w.self, action, e, r.ret.new_trial),
         IF r.ret.new_trial THEN CreatedByNewTrial ELSE {})

step(w, action, e) ==
  returned(w, IF w.self.curr_ph < 2 THEN step_shaped(w, action, e)
              ELSE step_delegated(w, action, e), action, e)

(***************************************************************************)
(* Construction: Shaping(env, init_ph, max_num_reps, short_dur, th, perf_w)*)
(***************************************************************************)
NewEnv(timing) ==
  [dt |-> EnvDt, tmax |-> TMaxSteps * EnvDt + TmaxRest,
   t |-> 0, t_ind |-> 0,
   num_tr |-> 0, timing |-> timing, sigma_dt |-> EnvSigmaDt,
   rewards |-> [correct |-> EnvRCorrect], performance |-> 0,
   r_tmax |-> EnvRTmax]

Shaping(e, init_ph, max_num_reps, short_dur, th, perf_w) ==
  [curr_ph |-> init_ph, curr_perf |-> <<0, 1>>, perf_window |-> perf_w,
   goal_perf |-> [i \in 1 .. 5 |-> th], mov_window |-> <<>>,
   counter |-> 0, action |-> 0, prev_act |-> 0,
   max_num_reps |-> max_num_reps, first_choice |-> TRUE,
   performance |-> 0, short |-> FALSE, variable |-> TRUE,
   short_dur |-> short_dur * e.dt,
   ori_periods |-> e.timing, sigma_dt_ori |-> e.sigma_dt,
   change_periods |-> <<>>]

Init ==
  /\ \E timing \in Timings : env = NewEnv(timing)
  /\ \E init_ph \in InitPhases, max_num_reps \in 1 .. MaxReps,
        perf_w \in 1 .. MaxPerfW :
       self = Shaping(env, init_ph, max_num_reps, ShortDurArg,
                      <<ThNum, ThDen>>, perf_w)
  /\ ret = NoRet
  /\ g = [op |-> "init", action |-> 0, ph |-> self.curr_ph, base |-> NoBase,
          nt |-> FALSE, installed |-> <<>>, checked |-> FALSE,
          cleared |-> FALSE, eval_len |-> 0, rec_perf |-> NoPerf,
          recorded |-> <<>>, seen |-> <<>>, timeout |-> FALSE, suppressed |-> FALSE,
          perf_before |-> 0, run |-> 0, run_act |-> NoAct,
          streak |-> 0, streak_act |-> NoAct,
          t_step |-> 0, steps |-> 0, ended_steps |-> 0,
          first_perf |-> NoPerf, ended_first |-> NoPerf,
          init_ph |-> self.curr_ph, timing0 |-> env.timing,
          sigma0 |-> env.sigma_dt,
          absent |-> {}, absent0 |-> {}, constructed |-> TRUE,
          raised |-> ""]

World == [self |-> self, env |-> env, g |-> g]

\* a controller exists and no call on it has raised
Usable == g.constructed /\ g.raised = "" /\ env.num_tr < MaxTrials

\* the driver calls step(action)
Step ==
  /\ Usable
  /\ \E action \in Actions, e \in EnvOut :
       LET r == step(World, action, e)
       IN  /\ self' = r.self
           /\ env' = r.env
           /\ g' = r.g
           /\ ret' = r.ret

\* the driver calls new_trial() directly
NewTrial ==
  /\ Usable
  /\ LET w0 == [World EXCEPT
                  !.g = StartCall(g, "new_trial", self, 0, NoBase)]
         r  == called(w0, "new_trial", new_trial(w0), reads_new_trial,
                      CreatedByNewTrial)
     IN  /\ self' = r.self
         /\ env' = r.env
         /\ g' = r.g
         /\ ret' = NoRet

Next == Step \/ NewTrial

Spec == Init /\ [][Next]_vars

\* Shaping(env, ...) for an env that lacks one attribute of the contract
InitMissing ==
  /\ \E timing \in Timings : env = NewEnv(timing)
  /\ \E init_ph \in InitPhases, max_num_reps \in 1 .. MaxReps :
       self = Shaping(env, init_ph, max_num_reps, ShortDurArg,
                      <<ThNum, ThDen>>, 1)
  /\ ret = NoRet
  /\ \E a \in ContractFields :
       g = [op |-> "init", action |-> 0, ph |-> self.curr_ph,
            base |-> NoBase,
            nt |-> FALSE, installed |-> <<>>, checked |-> FALSE,
            cleared |-> FALSE, eval_len |-> 0, rec_perf |-> NoPerf,
            recorded |-> <<>>, seen |-> <<>>, timeout |-> FALSE,
            suppressed |-> FALSE,
            perf_before |-> 0, run |-> 0, run_act |-> NoAct,
            streak |-> 0, streak_act |-> NoAct,
            t_step |-> 0, steps |-> 0, ended_steps |-> 0,
            first_perf |-> NoPerf, ended_first |-> NoPerf,
            init_ph |-> self.curr_ph, timing0 |-> env.timing,
            sigma0 |-> env.sigma_dt,
            absent |-> {a}, absent0 |-> {a},
            constructed |-> ({a} \cap ReadByInit = {}),
            raised |-> FirstAbsent(<<"dt", "timing", "sigma_dt">>, {a})]

SpecMissing == InitMissing /\ [][Next]_vars

(***************************************************************************)
(* Properties.                                                             *)
(***************************************************************************)
Min(a, b) == IF a <= b THEN a ELSE b

\* the last n elements of s
LastN(s, n) == SubSeq(s, Len(s) - n + 1, Len(s))

\* the last call ran new_trial and put the trial's outcome into the window
Recorded == g.nt /\ g.rec_perf # NoPerf

\* C1: the phase never decreases: after every step or new_trial call
\* curr_ph is at least what it was before the call.
C1_PhaseNeverDecreases == [][self'.curr_ph >= self.curr_ph]_vars

\* a call that advanced the phase
C1_Witness == g.nt /\ self.curr_ph = g.ph + 1 /\ g.ph >= 2

\* C2 as stated: constructed with init_ph in 0..4, the phase stays in 0..4.
C2_PhaseAtMostFour == self.curr_ph \in 0 .. 4

\* C2, amended: constructed with init_ph in 0..4, the phase stays in 0..5;
\* phase 4 is advanced to 5 when the full window's mean meets the
\* threshold, and at phase 5 no trial boundary increments it further.
C2_PhaseAtMostFive ==
  /\ self.curr_ph \in 0 .. 5
  /\ (g.nt /\ g.ph = 5) => self.curr_ph = 5

\* a trial boundary handled at phase 5
C2_Witness == g.nt /\ g.ph = 5 /\ self.curr_ph = 5

\* C3 as stated: counted from an empty window, the mean is checked at the
\* boundary of the perf_w-th completed trial and at no earlier one.
C3_CheckAtPerfWth ==
  Recorded =>
    /\ Len(g.seen) = self.perf_window => g.checked
    /\ Len(g.seen) < self.perf_window => ~g.checked

\* C3, amended: counted from an empty window, the first perf_w outcomes only
\* accumulate; the mean is first checked at the boundary of trial perf_w + 1
\* (whose outcome evicts the first one) and at no earlier boundary; if the
\* mean of the perf_w outcomes then in the window (outcomes 2..perf_w+1) is
\* >= the threshold of the current phase (and phase < 5), the phase is
\* incremented by one at that boundary and the window is cleared, and
\* otherwise the phase stays.
C3_CheckAtPerfWPlusOne ==
  Recorded =>
    /\ Len(g.seen) <= self.perf_window => ~g.checked
    /\ Len(g.seen) = self.perf_window + 1 =>
         /\ g.checked
         /\ IF MeanGE(Mean(LastN(g.seen, self.perf_window)),
                      self.goal_perf[g.ph + 1])
            THEN self.curr_ph = g.ph + 1 /\ self.mov_window = <<>>
            ELSE self.curr_ph = g.ph

\* the first check after an empty window, with a window of two, advancing
C3_Witness ==
  /\ Recorded /\ g.checked /\ self.perf_window = 2
  /\ Len(g.seen) = self.perf_window + 1
  /\ self.curr_ph = g.ph + 1

\* C4 as stated: whenever the mean is evaluated the window holds exactly
\* perf_w entries and is empty right after, advanced or not.
C4_ClearedAfterEveryCheck ==
  (g.nt /\ g.checked) =>
    g.eval_len = self.perf_window /\ self.mov_window = <<>>

C4_AfterCheck ==
  (g.nt /\ g.checked) =>
    /\ g.eval_len = self.perf_window
    /\ IF self.curr_ph > g.ph THEN self.mov_window = <<>>
       ELSE Len(self.mov_window) = self.perf_window

C4_Recheck ==
  (self.curr_ph < 5 /\ Len(self.mov_window) = self.perf_window /\ g'.nt)
    => g'.checked

\* C4, amended: whenever the mean is evaluated the window holds exactly
\* perf_w entries; it is empty right after the evaluation when the phase
\* advanced, and otherwise it is kept with its perf_w entries and
\* evaluated again at the next trial boundary.
C4_WindowAtCheck == [] C4_AfterCheck /\ [][C4_Recheck]_vars

\* a second evaluation in a row of a window that was kept
C4_Witness ==
  /\ g.nt /\ g.checked /\ ~g.cleared
  /\ Len(g.seen) >= self.perf_window + 2

\* C5: the window is, in arrival order, the most recent min(k, perf_w)
\* outcomes recorded since it was last cleared (k of them so far), and is
\* never longer than perf_w.
C5_WindowIsRecentOutcomes ==
  /\ self.mov_window =
       LastN(g.recorded, Min(Len(g.recorded), self.perf_window))
  /\ Len(self.mov_window) <= self.perf_window

\* an eviction happened, of a 1 followed by a 0: order matters
C5_Witness ==
  /\ Len(g.recorded) > self.perf_window
  /\ self.perf_window = 2
  /\ self.mov_window = <<1, 0>>

\* the periods new_trial changes: all but the last
NonLast(timing) == 1 .. (Len(timing) - 1)

IsConstantShort(val) ==
  val.dist = "constant" /\ val.args = <<self.short_dur>>

\* C6: whenever a new_trial call completes with the phase in {0,1}, the
\* timing installed into the environment maps every period but the last to
\* ('constant', short_dur), and env.sigma_dt is 0.
C6_ForcedShort ==
  (g.nt /\ self.curr_ph \in {0, 1}) =>
    /\ Keys(g.installed) = Keys(g.timing0)
    /\ \A i \in NonLast(g.installed) : IsConstantShort(g.installed[i])
    /\ env.timing = g.installed
    /\ env.sigma_dt = 0

\* a later call in phase 0 or 1, on a timing with non-constant periods
C6_Witness ==
  /\ g.nt /\ self.curr_ph \in {0, 1} /\ env.num_tr >= 2
  /\ g.timing0 = TimingB

Abs(x) == IF x >= 0 THEN x ELSE 0 - x

\* v is a multiple of dt nearest to n * short_dur / first
IsNearestMultiple(v, n, short_dur, first, dt) ==
  /\ v % dt = 0
  /\ \A k \in 0 .. ((n * short_dur) \div dt) :
       Abs(v * first - n * short_dur) <= Abs(k * dt * first - n * short_dur)

\* v is the largest multiple of dt that is <= n * short_dur / first
IsFloorMultiple(v, n, short_dur, first, dt) ==
  /\ v % dt = 0
  /\ v * first <= n * short_dur
  /\ n * short_dur < (v + dt) * first

\* C7 as stated: in phases 2 and 3 every scaled parameter is
\* original * short_dur / original_first rounded to the nearest multiple of dt.
C7_ScaledToNearest ==
  (g.nt /\ self.curr_ph \in {2, 3}) =>
    \A i \in NonLast(g.installed) :
      g.timing0[i].dist # "constant" =>
        \A k \in DOMAIN g.timing0[i].args :
          IsNearestMultiple(g.installed[i].args[k], g.timing0[i].args[k],
                            self.short_dur, g.timing0[i].args[1], env.dt)

\* C7, amended: whenever a new_trial call completes with the phase in
\* {2,3}, every non-last period whose original distribution is not
\* 'constant' keeps its distribution and has each parameter equal to
\* original_param * short_dur / original_first_param truncated (rounded
\* down) to a multiple of dt, every non-last 'constant' period is
\* ('constant', short_dur), and env.sigma_dt is 0 at phase 2 and the
\* original value at phase 3.
C7_ScaledToFloor ==
  (g.nt /\ self.curr_ph \in {2, 3}) =>
    /\ Keys(g.installed) = Keys(g.timing0)
    /\ \A i \in NonLast(g.installed) :
         IF g.timing0[i].dist # "constant"
         THEN /\ g.installed[i].dist = g.timing0[i].dist
              /\ DOMAIN g.installed[i].args = DOMAIN g.timing0[i].args
              /\ \A k \in DOMAIN g.timing0[i].args :
                   IsFloorMultiple(g.installed[i].args[k],
                                   g.timing0[i].args[k], self.short_dur,
                                   g.timing0[i].args[1], env.dt)
         ELSE IsConstantShort(g.installed[i])
    /\ env.timing = g.installed
    /\ env.sigma_dt = IF self.curr_ph = 2 THEN 0 ELSE g.sigma0

\* phase 2 reached from phase 1, then a further trial in it
C7_Witness ==
  /\ g.nt /\ self.curr_ph = 2 /\ g.ph = 2 /\ g.init_ph = 1
  /\ g.timing0 = TimingA

\* C8: once the phase is >= 4, every new_trial call installs the original
\* timing for every period and sets env.sigma_dt to the original value,
\* whatever shortened timings were installed before.
C8_FullTask ==
  (g.nt /\ self.curr_ph >= 4) =>
    /\ g.installed = g.timing0
    /\ g.installed = self.ori_periods
    /\ env.sigma_dt = g.sigma0

\* phase 4 reached from a phase that had a scaled timing installed
C8_Witness ==
  /\ g.nt /\ self.curr_ph >= 4 /\ g.init_ph < 4 /\ self.short

\* C9: the snapshot ori_periods and sigma_dt_ori are what they were at
\* construction, after any sequence of calls and phase transitions.
C9_SnapshotKept ==
  /\ self.ori_periods = g.timing0
  /\ self.sigma_dt_ori = g.sigma0

\* a changed timing is installed and the phase has moved on
C9_Witness ==
  /\ g.nt /\ env.timing # g.timing0 /\ self.curr_ph > g.init_ph

\* a step of phase 0 on which the environment signalled the trial's end
EndedInPh0 == g.op = "step" /\ g.ph = 0 /\ g.base.new_trial

ShapedStep == g.op = "step" /\ g.ph < 2

\* after the step's increment the elapsed time is past tmax - dt
PastTmax == g.t_step > env.tmax - env.dt

\* a step of phase 1 on which the environment signalled a boundary while
\* reporting performance 0
WrongChoicePh1 ==
  g.op = "step" /\ g.ph = 1 /\ g.base.new_trial /\ g.base.performance = 0

\* C11 as stated: in phase 1 every boundary signalled with non-positive
\* performance is suppressed: info.new_trial False, reward 0, no new_trial().
C11_AlwaysSuppressed ==
  WrongChoicePh1 => (~ret.new_trial /\ ret.reward = 0 /\ ~g.nt)

\* C11, amended: in phase 1, on a step at which the environment signals a
\* boundary with performance 0, if the elapsed time t does not exceed
\* tmax - dt after the step, the step returns info.new_trial False and
\* reward 0, new_trial() is not called and the trial continues (t is not
\* reset); if t exceeds tmax - dt the boundary is forced again on that same
\* step: info.new_trial True, reward r_tmax, new_trial() called.
C11_SuppressedUnlessTimeout ==
  WrongChoicePh1 =>
    IF PastTmax
    THEN ret.new_trial /\ ret.reward = env.r_tmax /\ g.nt
    ELSE /\ ~ret.new_trial /\ ret.reward = 0 /\ ~g.nt
         /\ env.t = g.t_step /\ env.t > 0
         /\ ret.performance = NoPerf

\* a suppressed boundary on which the environment itself paid 1
C11_Witness ==
  WrongChoicePh1 /\ ~PastTmax /\ g.base.reward = 1 /\ ~ret.new_trial

\* C12: in phase 1 the performance of a trial, as reported in
\* info.performance at its final boundary and as recorded in the window, is
\* the environment's performance on the first step of the trial on which it
\* signalled a boundary; later choices do not overwrite it.
C12_FirstChoiceKept ==
  (g.nt /\ g.ph = 1 /\ g.ended_first # NoPerf) =>
    /\ g.rec_perf = g.ended_first
    /\ g.op = "step" => ret.performance = g.ended_first

\* a wrong first choice, then a correct one that ends the trial
C12_Witness ==
  /\ g.nt /\ g.op = "step" /\ g.ph = 1 /\ g.ended_first = 0
  /\ g.base.new_trial /\ g.base.performance = 1
  /\ ret.performance = 0

\* no boundary is in effect for the step: none signalled, or suppressed
NoBoundaryInEffect ==
  ~g.base.new_trial \/ (g.ph = 1 /\ g.base.performance = 0)

\* the performance tracked for the trial that ended: its first choice in
\* phase 1, 0 when no choice was made
Tracked == IF g.ended_first # NoPerf THEN g.ended_first ELSE 0

\* C13: in phases 0 and 1, on a step after which t exceeds tmax - dt with
\* no boundary in effect, the boundary is forced: info.new_trial True,
\* r_tmax added to the step's reward, info.performance the tracked
\* performance, new_trial() called; and no boundary is forced otherwise.
C13_TimeoutForcesBoundary ==
  ShapedStep =>
    IF PastTmax /\ NoBoundaryInEffect
    THEN /\ ret.new_trial /\ g.nt
         /\ ret.reward = (IF g.base.new_trial THEN 0
                          ELSE Max(g.base.reward, 0)) + env.r_tmax
         /\ ret.performance = Tracked
         /\ g.rec_perf = Tracked
    ELSE ret.new_trial = ~NoBoundaryInEffect

\* a timeout in phase 0 on a step the environment paid 1 for
C13_Witness ==
  /\ ShapedStep /\ g.ph = 0 /\ PastTmax /\ ~g.base.new_trial
  /\ g.base.reward = 1 /\ ret.new_trial /\ ret.reward = 1 + env.r_tmax

(***************************************************************************)
(* Properties of step in phases 2 and later, and of the reward.            *)
(***************************************************************************)
\* what the environment's step put into info
PassedInfo ==
  /\ ret.new_trial = g.base.new_trial
  /\ ret.performance = IF g.base.new_trial THEN g.base.performance
                       ELSE NoPerf

\* C14: in phases 2 and 3 every step returns max(base reward, 0), with the
\* info of the environment's own step.
C14_RewardFloored ==
  (g.op = "step" /\ g.ph \in {2, 3}) =>
    ret.reward = Max(g.base.reward, 0) /\ PassedInfo

\* a punishing base reward masked in phase 2
C14_Witness ==
  g.op = "step" /\ g.ph = 2 /\ g.base.reward = -1 /\ ret.reward = 0

\* C15 as stated: in phase 4 every step returns the environment's reward
\* and performance unmodified.
C15_Ph4PassesReward ==
  (g.op = "step" /\ g.ph = 4) => (ret.reward = g.base.reward /\ PassedInfo)

\* C15, amended: in phase 4 every step returns max(base reward, 0), a
\* negative base reward being returned as 0, and the environment's
\* performance unmodified; the reward is returned unmodified only in
\* phase 5; in both, the only added effect is that a trial boundary
\* triggers new_trial().
C15_Ph4FloorsPh5Passes ==
  (g.op = "step" /\ g.ph >= 4) =>
    /\ ret.reward = IF g.ph = 4 THEN Max(g.base.reward, 0)
                    ELSE g.base.reward
    /\ PassedInfo
    /\ g.nt = g.base.new_trial

\* a negative base reward returned as it is in phase 5, at a trial boundary
C15_Witness ==
  /\ g.op = "step" /\ g.ph = 5 /\ g.base.reward = -1 /\ ret.reward = -1
  /\ g.nt

\* C16 as stated: the reward returned is never greater than the reward the
\* environment produced for the step.
C16_NeverAboveBase == g.op = "step" => ret.reward <= g.base.reward

\* the boundary of this step was forced by the timeout rule
Forced == ShapedStep /\ PastTmax /\ NoBoundaryInEffect

\* C16, amended: the reward returned is never greater than
\* max(base reward, 0), the floor at 0 raising a negative base reward to 0,
\* plus r_tmax on a step whose boundary the timeout rule forces; the one
\* exception is a trial end the environment signals in phase 0, where the
\* reward is rewards['correct'] or 0 whatever the base reward.
C16_NeverAboveFloor ==
  g.op = "step" =>
    IF g.ph = 0 /\ g.base.new_trial
    THEN ret.reward \in {0, env.rewards.correct}
    ELSE ret.reward <= Max(g.base.reward, 0)
                       + (IF Forced THEN env.r_tmax ELSE 0)

\* a base reward of 1 replaced by 0 in phase 1
C16_Witness ==
  g.op = "step" /\ g.ph = 1 /\ g.base.reward = 1 /\ ret.reward = 0

\* C17 as stated: every new_trial call resets the streak counter, the
\* first-choice flag and the current-trial performance.
C17_AllReset ==
  g.nt => (self.counter = 0 /\ self.first_choice /\ self.performance = 0)

\* C17, amended: every new_trial call sets the first-choice flag to True
\* and the current-trial performance to 0 (and env.performance, t, t_ind to
\* 0), whatever they were before; the streak counter and prev_act are not
\* reset: they carry over from trial to trial.
C17_FlagAndPerformanceReset ==
  /\ self.counter = g.streak
  /\ (g.streak > 0) => self.prev_act = g.streak_act
  /\ g.nt => /\ self.first_choice /\ self.performance = 0
             /\ env.performance = 0 /\ env.t = 0 /\ env.t_ind = 0

\* a trial of phase 0 ended with performance 1 by the second choice in a
\* row of the same action: performance is 0 again, the counter is still 2
C17_Witness ==
  /\ g.nt /\ g.op = "step" /\ g.ph = 0 /\ ret.performance = 1
  /\ self.first_choice /\ self.performance = 0 /\ self.counter = 2

\* C18: the timing installed for the last period is always the original
\* descriptor; only the other periods are shortened or scaled.
C18_LastPeriodKept ==
  g.nt =>
    /\ Len(g.installed) = Len(g.timing0)
    /\ g.installed[Len(g.installed)] = g.timing0[Len(g.timing0)]
    /\ self.curr_ph < 4 =>
         \A i \in NonLast(g.installed) : g.installed[i] # g.timing0[i]

\* a shortened timing whose last period is not a constant one
C18_Witness ==
  /\ g.nt /\ self.curr_ph < 4 /\ g.timing0 = TimingB
  /\ env.num_tr >= 2

(***************************************************************************)
(* Properties of construction over an incomplete environment, under        *)
(* SpecMissing.                                                            *)
(***************************************************************************)
\* C19 as stated: if the wrapped environment lacks any field or method of
\* the contract, construction fails; no controller is constructed and then
\* fails inside step or new_trial because of a missing field.
C19_FailsAtConstruction ==
  /\ g.absent0 # {} => ~g.constructed
  /\ g.constructed => g.raised = ""

\* a controller constructed over an env without tmax, whose first step
\* raised on the read of env.tmax
C19_RaisedInStep ==
  /\ g.constructed /\ g.absent0 = {"tmax"} /\ g.op = "step"
  /\ g.raised = "tmax" /\ env.num_tr = 0

(***************************************************************************)
(* The length of a trial in phases 0 and 1, under Spec.                    *)
(***************************************************************************)
\* max(1, floor(tmax / dt))
MaxStepsOfTrial == Max(1, env.tmax \div env.dt)

\* C20: in phases 0 and 1 every trial ends, with new_trial() called and t
\* set to 0, within max(1, floor(tmax / dt)) step calls in a row, also
\* when a boundary of phase 1 is suppressed.
C20_TrialEndsByTimeout ==
  /\ self.curr_ph < 2 => g.steps < MaxStepsOfTrial
  /\ ShapedStep =>
       IF g.nt
       THEN /\ g.ended_steps \in 1 .. MaxStepsOfTrial
            /\ env.t = 0 /\ g.steps = 0
       ELSE g.t_step = g.steps * env.dt /\ env.t = g.t_step
  /\ (ShapedStep /\ g.t_step > env.tmax - env.dt) => g.nt

\* a wrong choice of phase 1 on the last step the trial may take: the
\* trial ends on that step
C20_Witness ==
  /\ WrongChoicePh1 /\ g.nt
  /\ g.ended_steps = MaxStepsOfTrial /\ MaxStepsOfTrial > 1

(***************************************************************************)
(* What a step records at a trial boundary, under Spec.                    *)
(***************************************************************************)
\* the window after performance is recorded into window of capacity perf_w
WithOutcome(window, performance, perf_w) ==
  LastN(Append(window, performance), Min(Len(window) + 1, perf_w))

\* a step that handled a trial boundary has just been taken
BoundaryStep == g'.op = "step" /\ g'.nt

\* the window over one step
C21_StepRecords ==
  /\ (BoundaryStep /\ self.curr_ph < 5) =>
       /\ ret'.performance \in Perfs
       /\ self'.performance = 0
       /\ IF self'.curr_ph = self.curr_ph
          THEN self'.mov_window =
                 WithOutcome(self.mov_window, ret'.performance,
                             self.perf_window)
          ELSE /\ self'.mov_window = <<>>
               /\ self'.curr_perf =
                    Mean(WithOutcome(self.mov_window, ret'.performance,
                                     self.perf_window))
  /\ (BoundaryStep /\ self.curr_ph >= 5) =>
       self'.mov_window = self.mov_window
  /\ (g'.op = "step" /\ ~g'.nt) =>
       /\ self'.mov_window = self.mov_window
       /\ self'.performance = self.performance

\* C21: at every trial boundary handled by step, while the phase is below
\* 5, exactly one outcome is recorded into the window, the info.performance
\* that step returns, recorded before performance is reset to 0; a step
\* that handles no boundary records nothing.
C21_OutcomeRecordedBeforeReset == [][C21_StepRecords]_vars

\* a full window after a boundary step that returned performance 1: the 1
\* is its last entry and performance is 0 again
C21_Witness ==
  /\ g.op = "step" /\ g.nt /\ g.ph < 5 /\ ~g.cleared
  /\ ret.performance = 1 /\ self.performance = 0
  /\ self.perf_window = 2 /\ self.mov_window = <<0, 1>>

====
